---- MODULE Spec2Model ----
(***************************************************************************)
(* The trip planner page of src/src/app/page.tsx as a state machine: the   *)
(* React state of Page (trip, activeDayId, the add-item form), the         *)
(* localStorage entry under STORAGE_KEY, the two effects (load once, save  *)
(* on every change of trip) and the event handlers.                        *)
(*                                                                         *)
(* A JavaScript string is a sequence of one-character strings, so that     *)
(* trim, localeCompare and replaceAll are computed character by character. *)
(***************************************************************************)
EXTENDS Integers, Sequences, FiniteSets, TLC

VARIABLES
    trip,          \* useState<Trip>
    activeDayId,   \* useState<string>
    isModalOpen,   \* useState(false)
    fTime,         \* modal fields
    fTitle,
    fLocation,
    fNote,
    storage,       \* localStorage entry under STORAGE_KEY
    pc,            \* where the page is: "load", "save", "idle", "crashed"
    queued,        \* state updates queued by the load effect, applied at the next render
    call,          \* the mount or handler whose updates are being processed, with its
                   \* arguments and locals; NoCall once the page has settled
    lastWrite,     \* how the last localStorage.setItem ended: "none", "ok", "failed"
    now,           \* the clock read by Date.now()
    uidCount,      \* how many identifiers uid() has produced since the page was loaded
    resetCount,    \* how many times resetAll has run
    writeFailures, \* how many storage writes in a row have failed
    items,         \* argument of a stand-alone call of sortByTime
    sorted,        \* its result
    sortPc         \* "input", "sorted", "resorted"

vars == <<trip, activeDayId, isModalOpen, fTime, fTitle, fLocation,
          fNote, storage, pc, queued, call, lastWrite, now, uidCount, resetCount,
          writeFailures, items, sorted, sortPc>>

pageVars == <<trip, activeDayId, isModalOpen, fTime, fTitle, fLocation,
              fNote, storage, pc, queued, call, lastWrite, now, uidCount, resetCount,
              writeFailures>>

sortVars == <<items, sorted, sortPc>>

(***************************************************************************)
(* Bounds of the model.                                                    *)
(***************************************************************************)
MaxAdded == 1
MaxResets == 1
MaxWriteFailures == 1
MaxSortLen == 4
MaxClock == 2

(***************************************************************************)
(* JavaScript values.                                                      *)
(***************************************************************************)
\* The value of a property that is missing: it differs from every string,
\* identifier and list of the model (it is longer than any of them).
Undefined ==
    <<"undefined", "undefined", "undefined", "undefined", "undefined", "undefined",
      "undefined", "undefined", "undefined", "undefined", "undefined", "undefined">>

EmptyString == <<>>

Whitespace == {" "}

RECURSIVE trimStart(_)
trimStart(s) ==
    IF s # <<>> /\ Head(s) \in Whitespace THEN trimStart(Tail(s)) ELSE s

RECURSIVE trimEnd(_)
trimEnd(s) ==
    IF s # <<>> /\ s[Len(s)] \in Whitespace
    THEN trimEnd(SubSeq(s, 1, Len(s) - 1))
    ELSE s

\* a faulty variant: the text is taken as typed
NoTrim(s) == s

\* String.prototype.trim
trim(s) == trimEnd(trimStart(s))

\* String.prototype.replaceAll(from, to) for one-character from and to
replaceAll(s, from, to) == [i \in 1..Len(s) |-> IF s[i] = from THEN to ELSE s[i]]

\* The collation order of the characters the model uses: white space, then
\* punctuation, then digits, then letters.
Collation ==
    <<" ", "_", ":", "0", "1", "2", "3", "4", "5", "6", "7", "8", "9",
      "a", "b", "c", "n", "x", "z">>

CollationRank ==
    [c \in {Collation[i] : i \in 1..Len(Collation)} |->
        CHOOSE i \in 1..Len(Collation) : Collation[i] = c]

CharRank(c) == CollationRank[c]

\* String.prototype.localeCompare: negative, zero or positive
RECURSIVE localeCompare(_, _)
localeCompare(a, b) ==
    IF a = <<>> /\ b = <<>> THEN 0
    ELSE IF a = <<>> THEN -1
    ELSE IF b = <<>> THEN 1
    ELSE IF CharRank(Head(a)) < CharRank(Head(b)) THEN -1
    ELSE IF CharRank(Head(a)) > CharRank(Head(b)) THEN 1
    ELSE localeCompare(Tail(a), Tail(b))

STORAGE_KEY == <<"t", "r", "i", "p", "_", "p", "l", "a", "n", "n", "e", "r", "_", "v", "1">>

\* uid(prefix), called for the n-th time since the page was loaded: a value not
\* returned before.  Identifiers made by earlier page loads have n <= 0.
uid(prefix, n) == <<prefix, n>>

(***************************************************************************)
(* sortByTime                                                              *)
(***************************************************************************)
NoTime == <<"9", "9", ":", "9", "9">>

\* a faulty variant: a.time?.trim() || ""
TimeKeyBlankFirst(a) ==
    IF a.time = Undefined THEN EmptyString ELSE trim(a.time)

\* a.time?.trim() || "99:99"
TimeKey(a) ==
    IF a.time = Undefined THEN NoTime
    ELSE IF trim(a.time) = EmptyString THEN NoTime
    ELSE trim(a.time)

\* the comparator handed to Array.prototype.sort
CompareItems(a, b) == localeCompare(TimeKey(a), TimeKey(b))

\* x put into the sorted list s behind every element that does not compare
\* above it
RECURSIVE InsertSorted(_, _)
InsertSorted(s, x) ==
    IF s = <<>> THEN <<x>>
    ELSE IF CompareItems(Head(s), x) <= 0
         THEN <<Head(s)>> \o InsertSorted(Tail(s), x)
         ELSE <<x>> \o s

\* [...items].sort(cmp): Array.prototype.sort is stable
RECURSIVE StableSort(_)
StableSort(s) ==
    IF s = <<>> THEN <<>>
    ELSE InsertSorted(StableSort(SubSeq(s, 1, Len(s) - 1)), s[Len(s)])

sortByTime(its) == StableSort(its)

(***************************************************************************)
(* JSON.  A document is a tree of tagged nodes; a stored text is either    *)
(* the text of a document or a text JSON.parse rejects.                    *)
(***************************************************************************)
JStr(s) == [str |-> s]
JNum(n) == [num |-> n]
JArr(a) == [arr |-> a]
JObj(o) == [obj |-> o]
JNull == [null |-> TRUE]

IsJStr(v) == "str" \in DOMAIN v
IsJNum(v) == "num" \in DOMAIN v
IsJArr(v) == "arr" \in DOMAIN v
IsJObj(v) == "obj" \in DOMAIN v

\* localStorage.getItem gives null for a missing key, otherwise the stored text
RawNull == [kind |-> "null"]
RawEmpty == [kind |-> "text", json |-> FALSE, empty |-> TRUE]
RawGarbage == [kind |-> "text", json |-> FALSE, empty |-> FALSE]
RawJson(doc) == [kind |-> "text", json |-> TRUE, doc |-> doc]

\* the members of o whose value is not undefined: JSON.stringify leaves the
\* others out (updatedAt is a number in every document of the model)
Defined(o) == {k \in DOMAIN o : k = "updatedAt" \/ o[k] # Undefined}

ItemToJson(it) == JObj([k \in Defined(it) |-> JStr(it[k])])

DayToJson(d) ==
    JObj([k \in Defined(d) |->
            IF k = "items"
            THEN JArr([i \in 1..Len(d.items) |-> ItemToJson(d.items[i])])
            ELSE JStr(d[k])])

TripToJson(t) ==
    JObj([k \in Defined(t) |->
            IF k = "days" THEN JArr([i \in 1..Len(t.days) |-> DayToJson(t.days[i])])
            ELSE IF k = "updatedAt" THEN JNum(t.updatedAt)
            ELSE JStr(t[k])])

\* JSON.stringify(trip): the text of the document of trip
JSONstringify(t) == RawJson(TripToJson(t))

\* JSON.parse(text): the value of the document, or a SyntaxError
JSONparse(text) ==
    IF text.json THEN [ok |-> TRUE, value |-> text.doc] ELSE [ok |-> FALSE]

\* v.k for a parsed value v: undefined when v has no such property
JUndefined == [undefined |-> TRUE]

Prop(v, k) == IF IsJObj(v) /\ k \in DOMAIN v.obj THEN v.obj[k] ELSE JUndefined

\* v.length is truthy
TruthyLength(v) ==
    \/ IsJArr(v) /\ Len(v.arr) > 0
    \/ IsJStr(v) /\ Len(v.str) > 0

\* parsed?.days?.length
HasDays(parsed) == TruthyLength(Prop(parsed, "days"))

\* The parsed value read as the type it is cast to: each property read gives
\* the member's value, or undefined when the member is missing.
StringOf(v) == IF IsJStr(v) THEN v.str ELSE Undefined

AsItem(v) ==
    [id |-> StringOf(Prop(v, "id")), time |-> StringOf(Prop(v, "time")),
     title |-> StringOf(Prop(v, "title")), location |-> StringOf(Prop(v, "location")),
     note |-> StringOf(Prop(v, "note"))]

AsDay(v) ==
    [id |-> StringOf(Prop(v, "id")), label |-> StringOf(Prop(v, "label")),
     dateText |-> StringOf(Prop(v, "dateText")),
     items |-> IF IsJArr(Prop(v, "items"))
               THEN [i \in 1..Len(Prop(v, "items").arr) |-> AsItem(Prop(v, "items").arr[i])]
               ELSE Undefined]

AsTrip(v) ==
    [id |-> StringOf(Prop(v, "id")), name |-> StringOf(Prop(v, "name")),
     dateRange |-> StringOf(Prop(v, "dateRange")),
     updatedAt |-> Prop(v, "updatedAt").num,
     days |-> IF IsJArr(Prop(v, "days"))
              THEN [i \in 1..Len(Prop(v, "days").arr) |-> AsDay(Prop(v, "days").arr[i])]
              ELSE Undefined]

(***************************************************************************)
(* The strings of the model.                                               *)
(***************************************************************************)
T0900 == <<"0", "9", ":", "0", "0">>
T0930 == <<"0", "9", ":", "3", "0">>
T1000 == <<"1", "0", ":", "0", "0">>
T1100 == <<"1", "1", ":", "0", "0">>

DefaultName == <<"m", "y", " ", "t", "r", "i", "p">>
DefaultDateRange == <<"p", "i", "c", "k">>
TokyoTrip == <<"T", "o", "k", "y", "o", " ", "T", "r", "i", "p">>

\* the clock when the module is evaluated
LoadClock == 1

\* const defaultTrip: three days, with two, one and no items
defaultTrip ==
    [id |-> uid("trip", 1),
     name |-> DefaultName,
     dateRange |-> DefaultDateRange,
     updatedAt |-> LoadClock,
     days |-> <<
        [id |-> uid("day", 2), label |-> <<"D", "a", "y", " ", "1">>,
         dateText |-> <<"0", "4">>,
         items |-> <<
            [id |-> uid("item", 3), time |-> T0930, title |-> <<"a">>,
             location |-> <<"x">>, note |-> <<"n">>],
            [id |-> uid("item", 4), time |-> T1100, title |-> <<"b">>,
             location |-> <<"1", "0", "1">>, note |-> <<"n">>] >>],
        [id |-> uid("day", 5), label |-> <<"D", "a", "y", " ", "2">>,
         dateText |-> <<"0", "5">>,
         items |-> <<
            [id |-> uid("item", 6), time |-> T1000, title |-> <<"c">>,
             location |-> <<"c">>, note |-> EmptyString] >>],
        [id |-> uid("day", 7), label |-> <<"D", "a", "y", " ", "3">>,
         dateText |-> <<"0", "6">>,
         items |-> <<>>] >>]

\* identifiers uid() has produced when defaultTrip is built
DefaultUids == 7

(***************************************************************************)
(* What localStorage can hold when the page is loaded.                     *)
(***************************************************************************)
\* a trip saved by an earlier page load: one day without items
StoredTripA ==
    [id |-> uid("trip", 0), name |-> EmptyString, dateRange |-> EmptyString,
     updatedAt |-> 0,
     days |-> <<
        [id |-> uid("day", -1), label |-> <<"D", "a", "y", " ", "1">>,
         dateText |-> <<"0", "4">>, items |-> <<>>] >>]

\* a trip saved by an earlier page load: two days, the first with its items in
\* an order a moveItem has left, the second with an item without a time
StoredTripB ==
    [id |-> uid("trip", 0), name |-> DefaultName, dateRange |-> DefaultDateRange,
     updatedAt |-> 0,
     days |-> <<
        [id |-> uid("day", -1), label |-> <<"D", "a", "y", " ", "1">>,
         dateText |-> <<"0", "4">>,
         items |-> <<
            [id |-> uid("item", -2), time |-> T1100, title |-> <<"b">>,
             location |-> EmptyString, note |-> EmptyString],
            [id |-> uid("item", -3), time |-> T0930, title |-> <<"a">>,
             location |-> <<"x">>, note |-> <<"n">>] >>],
        [id |-> uid("day", -4), label |-> <<"D", "a", "y", " ", "2">>,
         dateText |-> <<"0", "5">>,
         items |-> <<
            [id |-> uid("item", -5), time |-> EmptyString, title |-> <<"c">>,
             location |-> EmptyString, note |-> EmptyString] >>] >>]

\* a trip without days
StoredTripNoDays ==
    [id |-> uid("trip", 0), name |-> TokyoTrip, dateRange |-> EmptyString,
     updatedAt |-> 0, days |-> <<>>]

ValidTrips == {StoredTripA, StoredTripB, StoredTripNoDays}

\* {"id": ..., "name": ..., "dateRange": ..., "updatedAt": 0, "days": [day]}
DocWithDay(day) ==
    JObj([id |-> JStr(uid("trip", 0)), name |-> JStr(TokyoTrip),
          dateRange |-> JStr(EmptyString), updatedAt |-> JNum(0),
          days |-> JArr(<<day>>)])

\* a day record without its id
DocDayWithoutId ==
    DocWithDay(JObj([label |-> JStr(<<"D", "a", "y", " ", "1">>),
                     dateText |-> JStr(<<"0", "4">>), items |-> JArr(<<>>)]))

\* a day record without its items list
DocDayWithoutItems ==
    DocWithDay(JObj([id |-> JStr(uid("day", -1)),
                     label |-> JStr(<<"D", "a", "y", " ", "1">>),
                     dateText |-> JStr(<<"0", "4">>)]))

\* days is a number, not a list
DocDaysNotAList ==
    JObj([id |-> JStr(uid("trip", 0)), name |-> JStr(TokyoTrip),
          dateRange |-> JStr(EmptyString), updatedAt |-> JNum(0), days |-> JNum(3)])

\* an object without days
DocWithoutDays == JObj([name |-> JStr(TokyoTrip), updatedAt |-> JNum(0)])

StructurallyWrongDocs ==
    {DocDayWithoutId, DocDayWithoutItems, DocDaysNotAList, DocWithoutDays, JNull}

InitialStorage ==
    {RawNull, RawEmpty, RawGarbage}
        \cup {JSONstringify(t) : t \in ValidTrips}
        \cup {RawJson(d) : d \in StructurallyWrongDocs}

(***************************************************************************)
(* What the render derives from the state.                                 *)
(***************************************************************************)
\* the days of t
Days(t) == {t.days[i] : i \in 1..Len(t.days)}

DayIds(t) == {t.days[i].id : i \in 1..Len(t.days)}

\* trip.days.find((d) => d.id === activeDayId) ?? trip.days[0]
FindActiveDay(t, dayId) ==
    IF \E i \in 1..Len(t.days) : t.days[i].id = dayId
    THEN t.days[CHOOSE i \in 1..Len(t.days) :
                    /\ t.days[i].id = dayId
                    /\ \A k \in 1..(i - 1) : t.days[k].id # dayId]
    ELSE t.days[1]

activeDay == FindActiveDay(trip, activeDayId)

\* sortByTime(activeDay?.items ?? [])
ActiveItemsOf(t, dayId) ==
    IF FindActiveDay(t, dayId).items = Undefined THEN <<>>
    ELSE sortByTime(FindActiveDay(t, dayId).items)

activeItems == ActiveItemsOf(trip, activeDayId)

\* the render reads d.items.length of every day
RenderThrows(t) == \E i \in 1..Len(t.days) : t.days[i].items = Undefined

(***************************************************************************)
(* The state updaters.                                                     *)
(***************************************************************************)
\* setTrip((t) => ({ ...t, ...patch, updatedAt: Date.now() })), the patch
\* being one field
updateTrip(t, field, value, clock) ==
    [t EXCEPT ![field] = value, !.updatedAt = clock]

\* setTrip((t) => ({ ...t, updatedAt: Date.now(),
\*                   days: t.days.map((d) => (d.id === dayId ? updater(d) : d)) }))
\* (updater is a function on the days of t)
updateDay(t, dayId, updater, clock) ==
    [t EXCEPT !.updatedAt = clock,
              !.days = [i \in 1..Len(t.days) |->
                          IF t.days[i].id = dayId THEN updater[t.days[i]]
                          ELSE t.days[i]]]

\* a faulty variant: (d) => ({ ...d, items: [newItem, ...d.items] })
PrependItem(d, newItem) == [d EXCEPT !.items = <<newItem>> \o d.items]

\* (d) => ({ ...d, items: [...d.items, newItem] })
AppendItem(d, newItem) == [d EXCEPT !.items = Append(d.items, newItem)]

\* a faulty variant: d.items.filter((x) => x.id === itemId)
FilterIn(its, itemId) == SelectSeq(its, LAMBDA x : x.id = itemId)

\* d.items.filter((x) => x.id !== itemId)
FilterOut(its, itemId) == SelectSeq(its, LAMBDA x : x.id # itemId)

\* (d) => ({ ...d, items: d.items.filter((x) => x.id !== itemId) })
RemoveItem(d, itemId) == [d EXCEPT !.items = FilterOut(d.items, itemId)]

\* sorted.findIndex((x) => x.id === itemId), counted from 1; 0 when there is none
findIndex(its, itemId) ==
    IF \E i \in 1..Len(its) : its[i].id = itemId
    THEN CHOOSE i \in 1..Len(its) :
            /\ its[i].id = itemId
            /\ \A k \in 1..(i - 1) : its[k].id # itemId
    ELSE 0

\* dir === "up" ? idx - 1 : idx + 1
Neighbour(idx, dir) == IF dir = "up" THEN idx - 1 ELSE idx + 1

\* a faulty variant: swapped[idx] = swapped[j]; swapped[j] = swapped[idx]
SwapOverwrites(s, idx, j) ==
    [i \in 1..Len(s) |-> IF i = idx THEN s[j] ELSE s[i]]

\* [swapped[idx], swapped[j]] = [swapped[j], swapped[idx]]
Swap(s, idx, j) ==
    [i \in 1..Len(s) |-> IF i = idx THEN s[j] ELSE IF i = j THEN s[idx] ELSE s[i]]

\* a faulty variant: the swapped list is sorted again before it is written
MoveUpdaterSorts(d, itemId, dir) ==
    LET srt == sortByTime(d.items)
        idx == findIndex(srt, itemId)
        j == Neighbour(idx, dir)
    IN  IF idx < 1 THEN d
        ELSE IF j < 1 \/ j > Len(srt) THEN d
        ELSE [d EXCEPT !.items = sortByTime(Swap(srt, idx, j))]

\* the updater of moveItem
MoveUpdater(d, itemId, dir) ==
    LET srt == sortByTime(d.items)
        idx == findIndex(srt, itemId)
        j == Neighbour(idx, dir)
    IN  IF idx < 1 THEN d
        ELSE IF j < 1 \/ j > Len(srt) THEN d
        ELSE [d EXCEPT !.items = Swap(srt, idx, j)]

\* a faulty variant: `${trip.name || "trip"}.json`
DownloadNameAsTyped(t) ==
    (IF t.name = Undefined \/ t.name = EmptyString
     THEN <<"t", "r", "i", "p">> ELSE t.name)
        \o <<".", "j", "s", "o", "n">>

\* `${(trip.name || "trip").replaceAll(" ", "_")}.json`
DownloadName(t) ==
    replaceAll(IF t.name = Undefined \/ t.name = EmptyString
               THEN <<"t", "r", "i", "p">> ELSE t.name, " ", "_")
        \o <<".", "j", "s", "o", "n">>

\* a faulty variant: the document of the seeded trip
ExportStale(t) == TripToJson(defaultTrip)

\* JSON.stringify(trip, null, 2): the same document, indented
ExportDocument(t) == TripToJson(t)

\* a faulty variant: { ...defaultTrip, id: uid("trip") }
ResetKeepsStamp(n, clock) == [defaultTrip EXCEPT !.id = uid("trip", n)]

\* a faulty variant: { ...trip, id: uid("trip"), updatedAt: Date.now() }
ResetKeepsTrip(n, clock) == [trip EXCEPT !.id = uid("trip", n), !.updatedAt = clock]

\* { ...defaultTrip, id: uid("trip"), updatedAt: Date.now() }
FreshTrip(n, clock) == [defaultTrip EXCEPT !.id = uid("trip", n), !.updatedAt = clock]

(***************************************************************************)
(* The inputs of the handlers.                                             *)
(***************************************************************************)
FTimes == {EmptyString}
FTitles == {<<" ", " ">>, <<" ", "a", " ">>}
FLocations == {<<" ", "x">>}
FNotes == {<<"n", " ">>}
Names == {TokyoTrip}
DateRanges == {<<"2", "0", "2", "6">>}
UnknownItemId == uid("item", 0)

NoUpdate == [none |-> TRUE]

\* the items and days added since the page was loaded
Added == uidCount - DefaultUids - resetCount

\* no call is being processed
NoCall == [op |-> "none"]

\* a faulty variant: a save effect without trip among its dependencies
SkipsSave == "idle"

\* where the page goes when a handler has called setTrip: the render, then the
\* save effect, which has trip among its dependencies
AfterSetTrip == "save"

\* !title
TitleMissing(title) == title = EmptyString

(***************************************************************************)
(* Page: the initial state and the two effects.                            *)
(***************************************************************************)
PageInit ==
    /\ trip = defaultTrip
    /\ activeDayId = defaultTrip.days[1].id
    /\ isModalOpen = FALSE
    /\ fTime = T0900
    /\ fTitle = EmptyString
    /\ fLocation = EmptyString
    /\ fNote = EmptyString
    /\ pc = "load"
    /\ queued = NoUpdate
    /\ call = [op |-> "render"]
    /\ lastWrite = "none"
    /\ now = LoadClock
    /\ uidCount = DefaultUids
    /\ resetCount = 0
    /\ writeFailures = 0

SortIdle ==
    /\ items = <<>>
    /\ sorted = <<>>
    /\ sortPc = "none"

\* the first run (localStorage has no entry) or a run after one that saved a trip
Init == PageInit /\ storage \in {RawNull, JSONstringify(StoredTripB)} /\ SortIdle

\* a faulty variant: the load effect without its setActiveDayId
LoadedUpdateKeepsActiveDay(text) ==
    IF text = RawNull \/ text = RawEmpty THEN NoUpdate
    ELSE IF ~JSONparse(text).ok THEN NoUpdate
    ELSE IF HasDays(JSONparse(text).value)
         THEN [trip |-> AsTrip(JSONparse(text).value), activeDayId |-> activeDayId]
         ELSE NoUpdate

\* a faulty variant: the load effect reads the entry and sets nothing
LoadedUpdateIgnoresStorage(text) == NoUpdate

\* what the load effect hands to setTrip and setActiveDayId
LoadedUpdate(text) ==
    IF text = RawNull \/ text = RawEmpty THEN NoUpdate
    ELSE IF ~JSONparse(text).ok THEN NoUpdate
    ELSE IF HasDays(JSONparse(text).value)
         THEN [trip |-> AsTrip(JSONparse(text).value),
               activeDayId |-> AsTrip(JSONparse(text).value).days[1].id]
         ELSE NoUpdate

\* a faulty variant: JSON.parse outside the try block
ParseErrorEscapes(text) ==
    /\ text # RawNull
    /\ text # RawEmpty
    /\ ~JSONparse(text).ok

\* whether the load effect lets an exception out: its body is one try block
\* whose catch takes everything
LoadThrows(text) == FALSE

\* useEffect(() => { ... }, []): load from localStorage once
LoadEffect ==
    /\ pc = "load"
    /\ queued' = LoadedUpdate(storage)
    /\ call' = [op |-> "mount", raw |-> storage]
    /\ pc' = IF LoadThrows(storage) THEN "crashed" ELSE "save"
    /\ UNCHANGED <<trip, activeDayId, isModalOpen, fTime, fTitle, fLocation, fNote,
                   storage, lastWrite, now, uidCount, resetCount, writeFailures>>
    /\ UNCHANGED sortVars

\* useEffect(() => { ... }, [trip]): save to localStorage
SaveEffect ==
    /\ pc = "save"
    /\ storage' = JSONstringify(trip)
    /\ lastWrite' = "ok"
    /\ writeFailures' = 0
    /\ pc' = IF queued = NoUpdate THEN "idle" ELSE "render"
    /\ call' = IF queued = NoUpdate THEN NoCall ELSE call
    /\ UNCHANGED <<trip, activeDayId, isModalOpen, fTime, fTitle, fLocation, fNote,
                   queued, now, uidCount, resetCount>>
    /\ UNCHANGED sortVars

\* a faulty variant: the catch block runs the effect again
SaveEffectRetries ==
    /\ pc = "save"
    /\ writeFailures < MaxWriteFailures
    /\ writeFailures' = writeFailures + 1
    /\ lastWrite' = "failed"
    /\ pc' = "save"
    /\ UNCHANGED <<trip, activeDayId, isModalOpen, fTime, fTitle, fLocation, fNote,
                   storage, queued, call, now, uidCount, resetCount>>
    /\ UNCHANGED sortVars

\* the same effect when localStorage.setItem throws (the quota is exceeded):
\* the catch block ignores it
SaveEffectThrows ==
    /\ pc = "save"
    /\ writeFailures < MaxWriteFailures
    /\ writeFailures' = writeFailures + 1
    /\ lastWrite' = "failed"
    /\ pc' = IF queued = NoUpdate THEN "idle" ELSE "render"
    /\ call' = IF queued = NoUpdate THEN NoCall ELSE call
    /\ UNCHANGED <<trip, activeDayId, isModalOpen, fTime, fTitle, fLocation, fNote,
                   storage, queued, now, uidCount, resetCount>>
    /\ UNCHANGED sortVars

\* the render that applies the updates the load effect queued
Render ==
    /\ pc = "render"
    /\ trip' = queued.trip
    /\ activeDayId' = queued.activeDayId
    /\ queued' = NoUpdate
    /\ pc' = IF RenderThrows(queued.trip) THEN "crashed" ELSE "save"
    /\ UNCHANGED <<isModalOpen, fTime, fTitle, fLocation, fNote, storage, call,
                   lastWrite, now, uidCount, resetCount, writeFailures>>
    /\ UNCHANGED sortVars

(***************************************************************************)
(* Page: the event handlers.  Each runs when the page is idle; one that    *)
(* calls setTrip is followed by the render and then the save effect.  The  *)
(* open modal covers the page (fixed inset-0 z-50), so the buttons of the  *)
(* page are pressed while it is closed and those of the modal while it is  *)
(* open.                                                                   *)
(***************************************************************************)
\* onChange of the name input: updateTrip({ name: e.target.value })
UpdateName ==
    /\ pc = "idle"
    /\ ~isModalOpen
    /\ \E value \in Names :
          /\ trip' = updateTrip(trip, "name", value, now)
          /\ call' = [op |-> "updateTrip", field |-> "name", value |-> value]
    /\ pc' = AfterSetTrip
    /\ UNCHANGED <<activeDayId, isModalOpen, fTime, fTitle, fLocation, fNote, storage,
                   queued, lastWrite, now, uidCount, resetCount, writeFailures>>
    /\ UNCHANGED sortVars

\* onChange of the date range input: updateTrip({ dateRange: e.target.value })
UpdateDateRange ==
    /\ pc = "idle"
    /\ ~isModalOpen
    /\ \E value \in DateRanges :
          /\ trip' = updateTrip(trip, "dateRange", value, now)
          /\ call' = [op |-> "updateTrip", field |-> "dateRange", value |-> value]
    /\ pc' = AfterSetTrip
    /\ UNCHANGED <<activeDayId, isModalOpen, fTime, fTitle, fLocation, fNote, storage,
                   queued, lastWrite, now, uidCount, resetCount, writeFailures>>
    /\ UNCHANGED sortVars

OpenAddModal ==
    /\ pc = "idle"
    /\ ~isModalOpen
    /\ isModalOpen' = TRUE
    /\ fTitle' = EmptyString
    /\ fLocation' = EmptyString
    /\ fNote' = EmptyString
    /\ call' = NoCall
    /\ UNCHANGED <<trip, activeDayId, fTime, storage, pc, queued, lastWrite, now,
                   uidCount, resetCount, writeFailures>>
    /\ UNCHANGED sortVars

CloseAddModal ==
    /\ pc = "idle"
    /\ isModalOpen
    /\ isModalOpen' = FALSE
    /\ call' = NoCall
    /\ UNCHANGED <<trip, activeDayId, fTime, fTitle, fLocation, fNote, storage, pc,
                   queued, lastWrite, now, uidCount, resetCount, writeFailures>>
    /\ UNCHANGED sortVars

\* onChange of the inputs of the modal
SetFTime ==
    /\ pc = "idle"
    /\ isModalOpen
    /\ fTime' \in FTimes
    /\ call' = NoCall
    /\ UNCHANGED <<trip, activeDayId, isModalOpen, fTitle, fLocation, fNote, storage, pc,
                   queued, lastWrite, now, uidCount, resetCount, writeFailures>>
    /\ UNCHANGED sortVars

SetFTitle ==
    /\ pc = "idle"
    /\ isModalOpen
    /\ fTitle' \in FTitles
    /\ call' = NoCall
    /\ UNCHANGED <<trip, activeDayId, isModalOpen, fTime, fLocation, fNote, storage, pc,
                   queued, lastWrite, now, uidCount, resetCount, writeFailures>>
    /\ UNCHANGED sortVars

SetFLocation ==
    /\ pc = "idle"
    /\ isModalOpen
    /\ fLocation' \in FLocations
    /\ call' = NoCall
    /\ UNCHANGED <<trip, activeDayId, isModalOpen, fTime, fTitle, fNote, storage, pc,
                   queued, lastWrite, now, uidCount, resetCount, writeFailures>>
    /\ UNCHANGED sortVars

SetFNote ==
    /\ pc = "idle"
    /\ isModalOpen
    /\ fNote' \in FNotes
    /\ call' = NoCall
    /\ UNCHANGED <<trip, activeDayId, isModalOpen, fTime, fTitle, fLocation, storage, pc,
                   queued, lastWrite, now, uidCount, resetCount, writeFailures>>
    /\ UNCHANGED sortVars

\* a faulty variant: the identifier made of the number of items of the day
NewItemNumbered(n) ==
    [id |-> uid("item", Len(activeDay.items) + 1), time |-> trim(fTime),
     title |-> trim(fTitle), location |-> trim(fLocation), note |-> trim(fNote)]

\* the item addItem builds from the fields of the modal
NewItem(n) ==
    [id |-> uid("item", n), time |-> trim(fTime), title |-> trim(fTitle),
     location |-> trim(fLocation), note |-> trim(fNote)]

\* addItem.  The button that calls it is disabled while the title is blank
\* (disabled={!fTitle.trim()}); the first branch is the handler's own check,
\* if (!title) return.
AddItem ==
    /\ pc = "idle"
    /\ isModalOpen
    /\ IF TitleMissing(trim(fTitle))
       THEN /\ call' = [op |-> "addItem", added |-> FALSE]
            /\ UNCHANGED <<trip, isModalOpen, pc, uidCount>>
       ELSE /\ Added < MaxAdded
            /\ trip' = updateDay(trip, activeDay.id,
                                 [d \in Days(trip) |-> AppendItem(d, NewItem(uidCount + 1))],
                                 now)
            /\ uidCount' = uidCount + 1
            /\ isModalOpen' = FALSE
            /\ pc' = AfterSetTrip
            /\ call' = [op |-> "addItem", added |-> TRUE]
    /\ UNCHANGED <<activeDayId, fTime, fTitle, fLocation, fNote, storage, queued,
                   lastWrite, now, resetCount, writeFailures>>
    /\ UNCHANGED sortVars

\* the identifiers of the items on display, whose buttons call the handlers
ShownItemIds == {activeItems[i].id : i \in 1..Len(activeItems)}

DeleteItem ==
    /\ pc = "idle"
    /\ ~isModalOpen
    /\ \E itemId \in ShownItemIds :
          /\ trip' = updateDay(trip, activeDay.id,
                               [d \in Days(trip) |-> RemoveItem(d, itemId)], now)
          /\ call' = [op |-> "deleteItem", itemId |-> itemId]
    /\ pc' = AfterSetTrip
    /\ UNCHANGED <<activeDayId, isModalOpen, fTime, fTitle, fLocation, fNote, storage,
                   queued, lastWrite, now, uidCount, resetCount, writeFailures>>
    /\ UNCHANGED sortVars

MoveItem ==
    /\ pc = "idle"
    /\ ~isModalOpen
    /\ \E itemId \in ShownItemIds \cup {UnknownItemId}, dir \in {"up", "down"} :
          /\ trip' = updateDay(trip, activeDay.id,
                               [d \in Days(trip) |-> MoveUpdater(d, itemId, dir)], now)
          /\ call' = [op |-> "moveItem", itemId |-> itemId, dir |-> dir,
                          idx |-> findIndex(activeItems, itemId),
                          j |-> Neighbour(findIndex(activeItems, itemId), dir)]
    /\ pc' = AfterSetTrip
    /\ UNCHANGED <<activeDayId, isModalOpen, fTime, fTitle, fLocation, fNote, storage,
                   queued, lastWrite, now, uidCount, resetCount, writeFailures>>
    /\ UNCHANGED sortVars

\* a faulty variant: `Day ${trip.days.length}`
DayLabelOfCount(n) ==
    <<"D", "a", "y", " ">> \o <<<<"0", "1", "2", "3", "4", "5", "6", "7", "8", "9">>[n]>>

\* `Day ${nextIndex}`, for the day counts of the model
DayLabel(n) ==
    <<"D", "a", "y", " ">> \o <<<<"0", "1", "2", "3", "4", "5", "6", "7", "8", "9">>[n + 1]>>

AddDay ==
    /\ pc = "idle"
    /\ ~isModalOpen
    /\ Added < MaxAdded
    /\ Len(trip.days) < 9
    /\ trip' = [trip EXCEPT
                    !.updatedAt = now,
                    !.days = Append(trip.days,
                                    [id |-> uid("day", uidCount + 1),
                                     label |-> DayLabel(Len(trip.days) + 1),
                                     dateText |-> <<"?">>,
                                     items |-> <<>>])]
    /\ activeDayId' = uid("day", uidCount + 1)
    /\ uidCount' = uidCount + 1
    /\ pc' = AfterSetTrip
    /\ call' = [op |-> "addDay"]
    /\ UNCHANGED <<isModalOpen, fTime, fTitle, fLocation, fNote, storage, queued,
                   lastWrite, now, resetCount, writeFailures>>
    /\ UNCHANGED sortVars

ExportJson ==
    /\ pc = "idle"
    /\ ~isModalOpen
    /\ call' = [op |-> "exportJson", download |-> DownloadName(trip),
                    document |-> ExportDocument(trip)]
    /\ UNCHANGED <<trip, activeDayId, isModalOpen, fTime, fTitle, fLocation, fNote,
                   storage, pc, queued, lastWrite, now, uidCount, resetCount, writeFailures>>
    /\ UNCHANGED sortVars

\* a faulty variant: resetAll without its setActiveDayId
ResetAllKeepsActiveDay ==
    /\ pc = "idle"
    /\ ~isModalOpen
    /\ resetCount < MaxResets
    /\ trip' = FreshTrip(uidCount + 1, now)
    /\ uidCount' = uidCount + 1
    /\ resetCount' = resetCount + 1
    /\ pc' = AfterSetTrip
    /\ call' = [op |-> "resetAll"]
    /\ UNCHANGED <<activeDayId, isModalOpen, fTime, fTitle, fLocation, fNote, storage,
                   queued, lastWrite, now, writeFailures>>
    /\ UNCHANGED sortVars

ResetAll ==
    /\ pc = "idle"
    /\ ~isModalOpen
    /\ resetCount < MaxResets
    /\ trip' = FreshTrip(uidCount + 1, now)
    /\ activeDayId' = FreshTrip(uidCount + 1, now).days[1].id
    /\ uidCount' = uidCount + 1
    /\ resetCount' = resetCount + 1
    /\ pc' = AfterSetTrip
    /\ call' = [op |-> "resetAll"]
    /\ UNCHANGED <<isModalOpen, fTime, fTitle, fLocation, fNote, storage, queued,
                   lastWrite, now, writeFailures>>
    /\ UNCHANGED sortVars

\* onClick of a day button: setActiveDayId(d.id)
SelectDay ==
    /\ pc = "idle"
    /\ ~isModalOpen
    /\ \E i \in 1..Len(trip.days) :
          /\ activeDayId' = trip.days[i].id
          /\ call' = NoCall
    /\ UNCHANGED <<trip, isModalOpen, fTime, fTitle, fLocation, fNote, storage, pc,
                   queued, lastWrite, now, uidCount, resetCount, writeFailures>>
    /\ UNCHANGED sortVars

\* SetFTime, SetFLocation and SetFNote change only the fields addItem copies
\* into the new item; FormSpec has them, the other specifications leave them
\* out and the fields keep the values of PageInit and openAddModal.
Next ==
    \/ LoadEffect
    \/ SaveEffect
    \/ Render
    \/ UpdateName
    \/ UpdateDateRange
    \/ OpenAddModal
    \/ CloseAddModal
    \/ SetFTitle
    \/ AddItem
    \/ DeleteItem
    \/ MoveItem
    \/ AddDay
    \/ ResetAll
    \/ SelectDay

\* the page with a storage that takes every write
Spec == Init /\ [][Next]_vars

\* the page on its first run, with a storage that can refuse a write
QuotaInit == PageInit /\ storage = RawNull /\ SortIdle

QuotaNext ==
    \/ LoadEffect
    \/ SaveEffect
    \/ SaveEffectThrows
    \/ UpdateName
    \/ OpenAddModal
    \/ CloseAddModal
    \/ SetFTitle
    \/ AddItem
    \/ DeleteItem
    \/ MoveItem
    \/ AddDay
    \/ ResetAll

QuotaSpec == QuotaInit /\ [][QuotaNext]_vars

\* the page loaded over whatever an earlier run or another program left in
\* localStorage
StartupInit == PageInit /\ storage \in InitialStorage /\ SortIdle

StartupNext ==
    \/ LoadEffect
    \/ SaveEffect
    \/ Render
    \/ UpdateName
    \/ DeleteItem
    \/ MoveItem
    \/ ExportJson
    \/ SelectDay

StartupSpec == StartupInit /\ [][StartupNext]_vars

FormNext ==
    \/ LoadEffect
    \/ SaveEffect
    \/ OpenAddModal
    \/ CloseAddModal
    \/ SetFTime
    \/ SetFTitle
    \/ SetFLocation
    \/ SetFNote
    \/ AddItem
    \/ SelectDay

\* the page on its first run, with every field of the add modal filled in
FormSpec == QuotaInit /\ [][FormNext]_vars

\* time passes between two handlers: Date.now() is read later
Tick ==
    /\ pc = "idle"
    /\ now < MaxClock
    /\ now' = now + 1
    /\ UNCHANGED <<trip, activeDayId, isModalOpen, fTime, fTitle, fLocation, fNote,
                   storage, pc, queued, call, lastWrite, uidCount, resetCount,
                   writeFailures>>
    /\ UNCHANGED sortVars

ClockNext ==
    \/ LoadEffect
    \/ SaveEffect
    \/ Render
    \/ Tick
    \/ UpdateName
    \/ OpenAddModal
    \/ CloseAddModal
    \/ SetFTitle
    \/ AddItem
    \/ DeleteItem
    \/ MoveItem
    \/ AddDay
    \/ ResetAll

\* the page with a clock that advances between the handlers
ClockSpec == Init /\ [][ClockNext]_vars

(***************************************************************************)
(* sortByTime called on its own                                            *)
(***************************************************************************)
T0000 == <<"0", "0", ":", "0", "0">>
T2359 == <<"2", "3", ":", "5", "9">>

\* well-formed times, blank times and the missing time
SortTimes == {T0000, T0930, T2359, EmptyString, <<" ">>, Undefined}

SortItem(i, t) ==
    [id |-> uid("item", i), time |-> t, title |-> <<"a">>, location |-> EmptyString,
     note |-> EmptyString]

SortInputs ==
    UNION {{[i \in 1..n |-> SortItem(i, ts[i])] : ts \in [1..n -> SortTimes]} :
            n \in 0..MaxSortLen}

SortInit ==
    /\ PageInit
    /\ storage = RawNull
    /\ items \in SortInputs
    /\ sorted = <<>>
    /\ sortPc = "input"

SortItems ==
    /\ sortPc = "input"
    /\ sorted' = sortByTime(items)
    /\ sortPc' = "sorted"
    /\ UNCHANGED items
    /\ UNCHANGED pageVars

SortAgain ==
    /\ sortPc = "sorted"
    /\ sorted' = sortByTime(sorted)
    /\ sortPc' = "resorted"
    /\ UNCHANGED items
    /\ UNCHANGED pageVars

SortNext ==
    \/ SortItems
    \/ SortAgain

SortSpec == SortInit /\ [][SortNext]_vars

\* the times an item can hold: time is a string, and a stored document or a
\* browser that shows the time input as a text input can give any
AnyTimes == {T0930, T2359, EmptyString, NoTime, <<"x">>}

AnyTimeInputs ==
    UNION {{[i \in 1..n |-> SortItem(i, ts[i])] : ts \in [1..n -> AnyTimes]} :
            n \in 0..MaxSortLen}

AnyTimeInit ==
    /\ PageInit
    /\ storage = RawNull
    /\ items \in AnyTimeInputs
    /\ sorted = <<>>
    /\ sortPc = "input"

\* sortByTime called on items with any time
AnyTimeSpec == AnyTimeInit /\ [][SortNext]_vars

(***************************************************************************)
(* The claims.                                                             *)
(***************************************************************************)
\* a string of white space only, the empty string included
IsBlank(str) == \A i \in 1..Len(str) : str[i] = " "

\* the call is a moveItem that found the item and a neighbour to swap it with
Swapped(c, shown) ==
    /\ c.op = "moveItem"
    /\ c.idx >= 1
    /\ c.j >= 1
    /\ c.j <= Len(shown)

\* C1: after moveItem has swapped an item of the active day with its
\* neighbour, the list on display (activeItems) is the list that was on
\* display before with the two items exchanged, whatever their times.
C1_SwapIsDisplayed ==
    [][(pc = "idle" /\ pc' = "save" /\ Swapped(call', activeItems))
          => ActiveItemsOf(trip', activeDayId')
                = Swap(activeItems, call'.idx, call'.j)]_vars

\* C2, as the specification states it: the page loaded over the text the
\* save effect writes for a valid trip S holds S once the load has been
\* applied, also when S has no days.
C2_RoundTripAnyTrip ==
    \A S \in ValidTrips :
        (call.op = "mount" /\ call.raw = JSONstringify(S)
            /\ pc = "save" /\ queued = NoUpdate)
        => trip = S

\* C2, amended: the page loaded over the text the save effect writes for a
\* valid trip S with at least one day holds S once the load has been applied,
\* also when days of S have no items; a stored trip without days is taken as
\* absent, and the trip stays the seeded default.
C2_RoundTrip ==
    \A S \in ValidTrips :
        (call.op = "mount" /\ call.raw = JSONstringify(S)
            /\ pc = "save" /\ queued = NoUpdate)
        => trip = (IF Len(S.days) > 0 THEN S ELSE defaultTrip)

\* C2, witness: the load of the stored trip with two days has been applied
C2_Loaded ==
    /\ call.op = "mount"
    /\ call.raw = JSONstringify(StoredTripB)
    /\ pc = "save"
    /\ queued = NoUpdate
    /\ trip = StoredTripB
    /\ trip # defaultTrip

\* a time sortByTime takes as missing
IsBlankTime(t) == t = Undefined \/ IsBlank(t)

Digit(c) == CHOOSE d \in 0..9 : <<"0", "1", "2", "3", "4", "5", "6", "7", "8", "9">>[d + 1] = c

\* the minutes since midnight of a well-formed HH:MM
Minutes(t) == (Digit(t[1]) * 10 + Digit(t[2])) * 60 + Digit(t[4]) * 10 + Digit(t[5])

\* a and b have equal times, or both have none
SameTime(a, b) ==
    IF IsBlankTime(a.time) \/ IsBlankTime(b.time)
    THEN IsBlankTime(a.time) /\ IsBlankTime(b.time)
    ELSE Minutes(a.time) = Minutes(b.time)

\* a comes before b by time: an earlier time, or a time against none
EarlierTime(a, b) ==
    /\ ~IsBlankTime(a.time)
    /\ IsBlankTime(b.time) \/ Minutes(a.time) < Minutes(b.time)

\* the place of an item of the input list (the n of its identifier)
InputPlace(a) == a.id[2]

\* C3: sortByTime returns a permutation of its input in which no item comes
\* before one with an earlier time, every item without a time comes after
\* every item with one, items of the same time (or both without) keep the order
\* of the input, and sorting the result again returns the same sequence.
C3_SortByTime ==
    /\ sortPc = "sorted" =>
          /\ Len(sorted) = Len(items)
          /\ \A i \in 1..Len(items) : \E j \in 1..Len(sorted) : sorted[j] = items[i]
          /\ \A i, j \in 1..Len(sorted) :
                i < j =>
                   /\ ~EarlierTime(sorted[j], sorted[i])
                   /\ IsBlankTime(sorted[i].time) => IsBlankTime(sorted[j].time)
                   /\ SameTime(sorted[i], sorted[j])
                        => InputPlace(sorted[i]) < InputPlace(sorted[j])
    /\ sortPc = "resorted" => sorted = sortByTime(items)

\* C3, witness: a list with blank times before timed items and two equal times
C3_Sorted ==
    /\ sortPc = "sorted"
    /\ Len(items) = 4
    /\ items[1].time = EmptyString
    /\ items[2].time = T2359
    /\ items[3].time = <<" ">>
    /\ items[4].time = T2359
    /\ sorted = <<items[2], items[4], items[1], items[3]>>

\* C4: addItem called while the title field is empty or holds white space
\* only changes nothing: the trip (the items of every day, updatedAt) and the
\* stored document stay as they are, no save is started and the page does not
\* fail.
C4_ValidationGate ==
    [][(pc = "idle" /\ IsBlank(fTitle) /\ call'.op = "addItem")
          => /\ trip' = trip
             /\ storage' = storage
             /\ activeDayId' = activeDayId
             /\ pc' = "idle"]_vars

\* C4, witness: addItem has refused a title of two spaces
C4_Refused ==
    /\ call.op = "addItem"
    /\ ~call.added
    /\ fTitle = <<" ", " ">>
    /\ isModalOpen
    /\ pc = "idle"

\* C5: loaded over a stored text that is no JSON, the page does not fail and
\* takes the entry as absent: no update is queued, the trip is the seeded
\* default and the active day its first day.
C5_CorruptRecovery ==
    (call.op = "mount" /\ call.raw = RawGarbage)
    => /\ pc = "save"
       /\ queued = NoUpdate
       /\ trip = defaultTrip
       /\ activeDayId = defaultTrip.days[1].id

\* C5, witness: the load effect has run over the text that is no JSON
C5_GarbageLoaded ==
    /\ call.op = "mount"
    /\ call.raw = RawGarbage
    /\ storage = RawGarbage
    /\ pc = "save"

\* C6: loaded over a stored document that is JSON but no trip (days is no
\* list of day records, a day lacks its id or its items), the page takes the
\* entry as absent: no update is queued, the page does not fail, the trip is
\* the seeded default and the active day one of its days.
C6_WrongStructureIsAbsent ==
    \A d \in StructurallyWrongDocs :
        (call.op = "mount" /\ call.raw = RawJson(d))
        => /\ queued = NoUpdate
           /\ pc # "crashed"
           /\ trip = defaultTrip
           /\ activeDayId \in DayIds(defaultTrip)

\* the handler calls that change the trip
MutatingOps == {"updateTrip", "addItem", "deleteItem", "moveItem", "addDay", "resetAll"}

\* C7: every handler that changes the trip is followed by the save effect
\* before the next handler runs, so whenever the page is idle the last write
\* has succeeded and the stored text is the serialization of the trip.
C7_WriteThrough ==
    pc = "idle" => (lastWrite = "ok" /\ storage = JSONstringify(trip))

\* C7, witness: the page is idle after a rename and the storage holds the
\* renamed trip
C7_RenamedAndStored ==
    /\ pc = "idle"
    /\ trip.name = TokyoTrip
    /\ trip # defaultTrip
    /\ storage = JSONstringify(trip)
    /\ storage # JSONstringify(defaultTrip)

\* C8: a storage write that fails is swallowed: the trip keeps its value, the
\* stored text keeps its value and the page goes idle without failing; and
\* while the last write is the failed one nothing is written until a handler
\* changes the trip again.
C8_WriteFailureSwallowed ==
    [][/\ (writeFailures' = writeFailures + 1)
            => /\ trip' = trip
               /\ activeDayId' = activeDayId
               /\ storage' = storage
               /\ pc' = "idle"
       /\ (pc = "idle" /\ lastWrite = "failed")
            => /\ storage' = storage
               /\ pc' = "save" => call'.op \in MutatingOps]_vars

\* C8, witness: the write after a rename has failed; the trip is the renamed
\* one and the storage holds the one before
C8_RenameNotStored ==
    /\ pc = "idle"
    /\ lastWrite = "failed"
    /\ trip.name = TokyoTrip
    /\ storage = JSONstringify(defaultTrip)

\* the members of the document of a trip
TripMembers == {"id", "name", "dateRange", "updatedAt", "days"}

\* C9, as the specification states it: the document exportJson produces holds
\* the current trip and an exportedAt member.
C9_ExportHasExportedAt ==
    call.op = "exportJson"
    => /\ AsTrip(call.document) = trip
       /\ "exportedAt" \in DOMAIN call.document.obj

\* C9, amended: the document exportJson produces holds the full current trip
\* (id, name, dateRange, updatedAt, days with their items) and nothing else:
\* it has no exportedAt member.
C9_ExportIsTheTrip ==
    call.op = "exportJson"
    => /\ DOMAIN call.document.obj = TripMembers
       /\ AsTrip(call.document) = trip

\* C9, witness: a renamed trip has been exported
C9_Exported ==
    /\ call.op = "exportJson"
    /\ trip.name = TokyoTrip
    /\ call.download = <<"T", "o", "k", "y", "o", "_", "T", "r", "i", "p",
                         ".", "j", "s", "o", "n">>

\* C10: resetAll replaces the trip in one step: the days are the seeded days
\* with the seeded items, name and dateRange are the seeded ones, and the
\* active day is the first day.
C10_Reset ==
    call.op = "resetAll"
    => /\ trip.days = defaultTrip.days
       /\ trip.name = DefaultName
       /\ trip.dateRange = DefaultDateRange
       /\ activeDayId = trip.days[1].id
       /\ activeDayId = defaultTrip.days[1].id

\* C10, witness: resetAll has run on a trip with a day added, a seeded item
\* deleted and another name, which the storage still holds
C10_ResetDone ==
    /\ call.op = "resetAll"
    /\ pc = "save"
    /\ Len(AsTrip(storage.doc).days) = 4
    /\ Len(AsTrip(storage.doc).days[1].items) = 1
    /\ AsTrip(storage.doc).name = TokyoTrip
    /\ trip.days = defaultTrip.days

\* the identifiers of the items of all the days of t
ItemIds(t) ==
    UNION {{t.days[i].items[k].id : k \in 1..Len(t.days[i].items)} :
              i \in 1..Len(t.days)}

\* s without its k-th element
Without(s, k) == SubSeq(s, 1, k - 1) \o SubSeq(s, k + 1, Len(s))

\* C11: deleteItem(itemId) takes exactly the item with that id out of the
\* active day: the other items of the day keep their order, the other days
\* and the rest of the day are as before; and an item enters the trip only
\* through the load, resetAll, or addItem with an identifier not used before,
\* so a deleted item does not come back otherwise.
C11_DeleteItem ==
    [][/\ (pc = "idle" /\ call'.op = "deleteItem")
            => /\ Len(trip'.days) = Len(trip.days)
               /\ \A i \in 1..Len(trip.days) :
                     IF trip.days[i].id = activeDay.id
                     THEN /\ \E k \in 1..Len(trip.days[i].items) :
                                /\ trip.days[i].items[k].id = call'.itemId
                                /\ trip'.days[i].items = Without(trip.days[i].items, k)
                          /\ [trip'.days[i] EXCEPT !.items = <<>>]
                                = [trip.days[i] EXCEPT !.items = <<>>]
                     ELSE trip'.days[i] = trip.days[i]
       /\ \A id \in ItemIds(trip') \ ItemIds(trip) :
             \/ call'.op \in {"mount", "resetAll"}
             \/ /\ call'.op = "addItem"
                /\ id = uid("item", uidCount')
                /\ uidCount' > uidCount]_vars

\* C11, witness: the 11:00 item of the seeded Day 1 has been deleted while
\* the other days have their items
C11_Deleted ==
    /\ call.op = "deleteItem"
    /\ call.itemId = uid("item", 4)
    /\ pc = "save"
    /\ trip.days[1].items = <<defaultTrip.days[1].items[1]>>
    /\ trip.days[2] = defaultTrip.days[2]

\* C12: every handler that changes the trip (updateTrip, addItem with a
\* title, deleteItem, moveItem, addDay, resetAll) sets updatedAt to the clock
\* reading of that moment; the clock is never behind updatedAt, so updatedAt
\* does not decrease in any step of the handlers, also after a stored trip
\* has been loaded.
C12_UpdatedAtRefreshed ==
    [][/\ trip.updatedAt <= now
       /\ (pc = "idle" /\ pc' = "save")
            => /\ call'.op \in MutatingOps
               /\ trip'.updatedAt = now
       /\ pc # "render" => trip'.updatedAt >= trip.updatedAt]_vars

\* C12, witness: the stored trip has been loaded and an item of it deleted
\* after the clock has advanced
C12_Refreshed ==
    /\ call.op = "deleteItem"
    /\ pc = "save"
    /\ trip.id = StoredTripB.id
    /\ now > LoadClock
    /\ trip.updatedAt = now
    /\ AsTrip(storage.doc).updatedAt = StoredTripB.updatedAt

\* the identifiers of the days of t, in the order of the list
DayIdSeq(t) == [i \in 1..Len(t.days) |-> t.days[i].id]

\* C13: addDay puts one new day without items at the end of the list,
\* labelled "Day N" with N the number of days after the addition, and leaves
\* the days there were as they are, in their order; a step of anything but
\* addDay, resetAll and the load leaves the list of day identifiers as it is.
C13_DaysAppendOnly ==
    [][/\ (pc = "idle" /\ call'.op = "addDay")
            => /\ Len(trip'.days) = Len(trip.days) + 1
               /\ SubSeq(trip'.days, 1, Len(trip.days)) = trip.days
               /\ trip'.days[Len(trip'.days)].items = <<>>
               /\ trip'.days[Len(trip'.days)].id \notin DayIds(trip)
               /\ SubSeq(trip'.days[Len(trip'.days)].label, 1, 4) = <<"D", "a", "y", " ">>
               /\ Len(trip'.days[Len(trip'.days)].label) = 5
               /\ Digit(trip'.days[Len(trip'.days)].label[5]) = Len(trip'.days)
       /\ call'.op \notin {"addDay", "resetAll", "mount"}
            => DayIdSeq(trip') = DayIdSeq(trip)]_vars

\* C13, witness: a fourth day has been added to the three seeded days
C13_DayAdded ==
    /\ call.op = "addDay"
    /\ pc = "save"
    /\ Len(trip.days) = 4
    /\ SubSeq(trip.days, 1, 3) = defaultTrip.days
    /\ trip.days[4].label = <<"D", "a", "y", " ", "4">>
    /\ trip.days[4].items = <<>>

DotJson == <<".", "j", "s", "o", "n">>

AllItems(t) ==
    UNION {{t.days[i].items[k] : k \in 1..Len(t.days[i].items)} : i \in 1..Len(t.days)}

\* how many items the days of t hold
RECURSIVE ItemCount(_, _)
ItemCount(t, n) == IF n = 0 THEN 0 ELSE Len(t.days[n].items) + ItemCount(t, n - 1)

\* no two days of t and no two items of t have the same identifier
DistinctIds(t) ==
    /\ Cardinality(DayIds(t)) = Len(t.days)
    /\ Cardinality(ItemIds(t)) = ItemCount(t, Len(t.days))

\* the day of t with the identifier id, without its items
DayWithId(t, id) ==
    [(CHOOSE d \in Days(t) : d.id = id) EXCEPT !.items = <<>>]

\* C15: with uid returning a value not returned before, the identifiers of the
\* days of the trip are pairwise distinct and so are those of all its items,
\* before and after every step; and a day or an item that is in the trip
\* before and after a step (resetAll included) carries the same identifier
\* with the same record: the items are the same records, the days have the
\* same label and date.
C15_Identifiers ==
    [][/\ pc = "load" => DistinctIds(trip)
       /\ trip' # trip =>
             LET itemsAfter == AllItems(trip')
                 idsAfter == {it.id : it \in itemsAfter}
             IN  /\ DistinctIds(trip')
                 /\ \A it \in AllItems(trip) : it.id \in idsAfter => it \in itemsAfter
                 /\ \A id \in DayIds(trip) \cap DayIds(trip') :
                       DayWithId(trip', id) = DayWithId(trip, id)]_vars

\* C15, witness: an item has been added after a resetAll: the trip holds the
\* three seeded items and one with a new identifier
C15_AddedAfterReset ==
    /\ call.op = "addItem"
    /\ call.added
    /\ pc = "save"
    /\ resetCount = 1
    /\ ItemIds(defaultTrip) \subseteq ItemIds(trip)
    /\ Cardinality(ItemIds(trip)) = 4

\* the place in the list its of the item with the identifier id
PlaceOf(its, id) == CHOOSE k \in 1..Len(its) : its[k].id = id

\* s holds the items of its in time order: no item before one with an earlier
\* time, items without a time last, items of the same time in the order of its
IsTimeOrdering(s, its) ==
    /\ Len(s) = Len(its)
    /\ \A k \in 1..Len(its) : \E i \in 1..Len(s) : s[i] = its[k]
    /\ \A i, k \in 1..Len(s) :
          i < k =>
             /\ ~EarlierTime(s[k], s[i])
             /\ SameTime(s[i], s[k]) => PlaceOf(its, s[i].id) < PlaceOf(its, s[k].id)

\* s with the elements at i and k exchanged
Exchanged(s, i, k) ==
    [n \in 1..Len(s) |-> IF n = i THEN s[k] ELSE IF n = k THEN s[i] ELSE s[n]]

\* C16: when the item has a neighbour in the direction asked for, moveItem
\* stores as the items of the active day the time ordering of its items with
\* the item and that neighbour exchanged (exchanging them back gives the time
\* ordering, and the item is at the neighbour's place), not sorted again; and
\* the save effect that follows writes a document with the same days.
C16_MoveStoresSwap ==
    [][/\ (pc = "idle" /\ Swapped(call', activeItems))
            => LET before == activeDay.items
                   after == FindActiveDay(trip', activeDayId').items
               IN  /\ after[call'.j].id = call'.itemId
                   /\ call'.j = call'.idx + (IF call'.dir = "up" THEN -1 ELSE 1)
                   /\ IsTimeOrdering(Exchanged(after, call'.idx, call'.j), before)
       /\ (pc = "save" /\ call.op = "moveItem")
            => /\ storage'.json
               /\ AsTrip(storage'.doc).days = trip.days
               /\ trip' = trip]_vars

\* C16, witness: the 11:00 item of the seeded Day 1 has been moved up; the
\* trip and the stored document hold it before the 09:30 item
C16_SwapStored ==
    /\ pc = "idle"
    /\ trip.id = defaultTrip.id
    /\ trip.days[1].items = <<defaultTrip.days[1].items[2], defaultTrip.days[1].items[1]>>
    /\ AsTrip(storage.doc).days[1].items = trip.days[1].items

\* C17: in the list sortByTime returns, an item without a time (missing or
\* blank) comes after every item with a time, whatever string that time is.
C17_BlankAfterAnyTime ==
    sortPc = "sorted" =>
        \A i, k \in 1..Len(sorted) :
            (IsBlankTime(sorted[i].time) /\ ~IsBlankTime(sorted[k].time)) => k < i

\* the valid trips the load effect takes: those with a day
LoadableTrips == {S \in ValidTrips : Len(S.days) > 0}

\* C18: when the storage holds the text of a valid trip S with a day, the load
\* effect reads the storage before any write (the save effect has not yet put
\* the seeded trip there), and the step that settles the startup leaves the
\* trip equal to S, the stored text equal to the text of S and the active day
\* the first day of S.
C18_StartupRestores ==
    [][/\ (pc = "load" /\ call'.op = "mount")
            => /\ lastWrite = "none"
               /\ call'.raw = storage
               /\ storage' = storage
       /\ \A S \in LoadableTrips :
             (call.op = "mount" /\ call.raw = JSONstringify(S)
                 /\ pc = "save" /\ pc' = "idle")
             => /\ trip' = S
                /\ storage' = JSONstringify(S)
                /\ activeDayId' = S.days[1].id]_vars

\* C18, witness: the startup over the stored trip with two days has settled
C18_Restored ==
    /\ pc = "idle"
    /\ lastWrite = "ok"
    /\ trip = StoredTripB
    /\ storage = JSONstringify(StoredTripB)
    /\ activeDayId = StoredTripB.days[1].id
    /\ call = NoCall

\* s holds the elements of r, each as often as r does (the elements of r
\* being distinct)
IsPermutation(s, r) ==
    /\ Len(s) = Len(r)
    /\ \A k \in 1..Len(r) : \E i \in 1..Len(s) : s[i] = r[k]
    /\ \A i, k \in 1..Len(s) : i # k => s[i] # s[k]

\* C19: after any moveItem call the items of the active day are a permutation
\* of its items before the call, the rest of that day and every other day are
\* as before; when the item is at the first or last place in the direction
\* asked for, or its identifier is unknown, the days are exactly as before.
C19_MoveKeepsItems ==
    [][(pc = "idle" /\ call'.op = "moveItem")
          => /\ Len(trip'.days) = Len(trip.days)
             /\ \A i \in 1..Len(trip.days) :
                   IF trip.days[i].id = activeDay.id
                   THEN /\ IsPermutation(trip'.days[i].items, trip.days[i].items)
                        /\ [trip'.days[i] EXCEPT !.items = <<>>]
                              = [trip.days[i] EXCEPT !.items = <<>>]
                   ELSE trip'.days[i] = trip.days[i]
             /\ ~Swapped(call', activeItems) => trip'.days = trip.days
             /\ activeDayId' = activeDayId]_vars

\* C19, witness: moveItem has been called with an unknown identifier on the
\* seeded Day 1 whose two items an earlier moveItem has exchanged
C19_MovedUnknown ==
    /\ call.op = "moveItem"
    /\ call.itemId = UnknownItemId
    /\ call.idx = 0
    /\ pc = "save"
    /\ trip.days[1].items = <<defaultTrip.days[1].items[2], defaultTrip.days[1].items[1]>>
    /\ activeDayId = defaultTrip.days[1].id

\* C20: whenever the page is idle the active day id is the id of a day of
\* the trip, and the day on display (activeDay) is that day and not the
\* fallback to the first day.
C20_ActiveDayIsADay ==
    pc = "idle"
    => /\ \E i \in 1..Len(trip.days) : trip.days[i].id = activeDayId
       /\ activeDay.id = activeDayId

\* C20, witness: the page is idle on the first day after resetAll has been
\* called on a trip with something added
C20_IdleAfterReset ==
    /\ pc = "idle"
    /\ trip.id = uid("trip", DefaultUids + 2)
    /\ activeDayId = trip.days[1].id
    /\ Len(trip.days) = 3

\* r is the text str without the spaces at its two ends
IsTrimOf(r, str) ==
    \E a \in 1..(Len(str) + 1), b \in 0..Len(str) :
        /\ r = SubSeq(str, a, b)
        /\ \A i \in 1..(a - 1) : str[i] = " "
        /\ \A i \in (b + 1)..Len(str) : str[i] = " "
        /\ r # <<>> => (r[1] # " " /\ r[Len(r)] # " ")

\* C21: addItem with a title that is not blank puts exactly one item at the
\* end of the items of the active day: its identifier is not one of the trip,
\* its time, title, location and note are the fields of the modal without the
\* spaces at their ends; the items the day had, the rest of the day and the
\* other days are as before, and the modal is closed.  An addItem that is
\* refused leaves the modal open.
C21_AddItem ==
    [][/\ (pc = "idle" /\ call'.op = "addItem" /\ call'.added)
            => /\ ~IsBlank(fTitle)
               /\ Len(trip'.days) = Len(trip.days)
               /\ \A i \in 1..Len(trip.days) :
                     IF trip.days[i].id = activeDay.id
                     THEN LET after == trip'.days[i].items
                              new == after[Len(after)]
                          IN  /\ Len(after) = Len(trip.days[i].items) + 1
                              /\ SubSeq(after, 1, Len(after) - 1) = trip.days[i].items
                              /\ new.id \notin ItemIds(trip)
                              /\ IsTrimOf(new.time, fTime)
                              /\ IsTrimOf(new.title, fTitle)
                              /\ IsTrimOf(new.location, fLocation)
                              /\ IsTrimOf(new.note, fNote)
                              /\ DOMAIN new = {"id", "time", "title", "location", "note"}
                              /\ [trip'.days[i] EXCEPT !.items = <<>>]
                                    = [trip.days[i] EXCEPT !.items = <<>>]
                     ELSE trip'.days[i] = trip.days[i]
               /\ isModalOpen
               /\ ~isModalOpen'
       /\ (pc = "idle" /\ call'.op = "addItem" /\ ~call'.added)
            => /\ IsBlank(fTitle)
               /\ isModalOpen
               /\ isModalOpen']_vars

\* C21, witness: an item typed with spaces around its title, location and note
\* and without a time has been added behind the seeded item of Day 2
C21_Added ==
    /\ call.op = "addItem"
    /\ call.added
    /\ pc = "save"
    /\ ~isModalOpen
    /\ fTitle = <<" ", "a", " ">>
    /\ fLocation = <<" ", "x">>
    /\ fNote = <<"n", " ">>
    /\ Len(trip.days[2].items) = 2
    /\ trip.days[2].items[1] = defaultTrip.days[2].items[1]
    /\ trip.days[2].items[2].title = <<"a">>
    /\ trip.days[2].items[2].location = <<"x">>
    /\ trip.days[2].items[2].note = <<"n">>
    /\ trip.days[2].items[2].time = EmptyString

====
